---- MODULE Spec2Model ----
(***************************************************************************)
(* A model of cache_sim_omp.c: NumCores OpenMP threads, each with a        *)
(* private direct-mapped cache of CacheSize lines kept in the shared array *)
(* c, run their instruction streams in lock step over the shared array     *)
(* memory.  Every access to a shared location that another thread may      *)
(* access at the same time is a step of its own; the labels of pc are the  *)
(* source lines the thread is about to execute.                            *)
(***************************************************************************)
EXTENDS Integers, FiniteSets, Sequences, TLC

\* ------------------------------------------------------------- constants
NumCores == 2
CacheSize == 2
memory_size == 24

\* Bounds of the model: addresses 0..MaxAddr, values 0..MaxVal, and at most
\* MaxCycles instructions in a core's stream.
MaxAddr == 2
MaxVal == 1
MaxCycles == 2

Cores == 0 .. (NumCores - 1)
Slots == 0 .. (CacheSize - 1)
Addresses == 0 .. MaxAddr
Values == 0 .. MaxVal

\* enum mesi_state
Invalid == "Invalid"
Shared == "Shared"
Exclusive == "Exclusive"
Modified == "Modified"
mesi_state == {Invalid, Shared, Exclusive, Modified}

\* struct cache
cache == [address : Addresses, value : Values, state : mesi_state]

\* struct decoded_inst, as decode_inst_line fills it: type 0 is RD (value -1),
\* type 1 is WR.
decoded ==
  [type : {0}, address : Addresses, value : {-1}]
    \cup [type : {1}, address : Addresses, value : Values]

RD(a) == [type |-> 0, address |-> a, value |-> -1]
WR(a, v) == [type |-> 1, address |-> a, value |-> v]

\* The streams of the small specification: reads and writes of the two lowest
\* addresses of slot 0, which collide in the cache.
SlotInsts ==
  { RD(0), RD(CacheSize), WR(0, MaxVal), WR(CacheSize, MaxVal) }

\* The streams of the range specification: reads and writes of address 0 and of
\* the first address past the end of memory, which collide in the cache.
RangeInsts ==
  { RD(0), RD(memory_size), WR(0, MaxVal), WR(memory_size, MaxVal) }

None == 0 - 1

VARIABLES
  c,             \* c[core][slot]: the cache lines of every core
  memory,        \* memory[address]
  pc,            \* pc[core]: the source line the thread is at
  inst,          \* inst[core]: the decoded instruction of this cycle
  idx,           \* idx[core]: the i of the for loops over the other caches
  found,         \* found[core]: the read miss found the data in another cache
  mem_access,    \* holder of critical(mem_access), or None
  cache_access,  \* holder of critical(cache_access), or None
  print_lock,    \* holder of critical(print), or None
  test,          \* holder of critical(test) (DEBUG build), or None
  debug,         \* TRUE in a build with the DEBUG macro defined
  cycle,         \* cycle[core]: instructions fetched so far
  obs,           \* obs[core]: the address and value the thread prints
  freed,         \* number of calls of free(c)
  isa,           \* the instructions the input files are made of
  lastw,         \* history: lastw[a], the last write of a, if it stands alone
  wb,            \* history: wb[core], the Modified line the core is evicting
  evicted,       \* history: evicted[a], the value last evicted for a
  expect,        \* history: expect[core], evicted[a] when the read of a began
  start,         \* history: the caches and the memory when the cycle began
  overrun,       \* a byte past the end of the block of memory was accessed
  before,        \* history (DEBUG build): the caches and the memory when the
                 \* instruction inside critical(test) began
  limit          \* the input files have at most limit lines

vars ==
  << c, memory, pc, inst, idx, found, mem_access, cache_access, print_lock,
     test, debug, cycle, obs, freed, isa, lastw, wb, evicted, expect, start,
     overrun, before, limit >>

\* direct mapping hash
hash(a) == a % CacheSize

\* the slot and the line the instruction of core k works on
Slot(k) == hash(inst[k].address)
Line(k) == c[k][Slot(k)]

NoObs == [type |-> None, address |-> None, value |-> None]

\* inst, i and found are locals of the loop body: they hold nothing between two
\* iterations
NoInst == [type |-> None, address |-> 0, value |-> None]

NoWrite == [core |-> None, value |-> None, cycle |-> None]
NoLine == [address |-> None, value |-> None]
NoStart == [c |-> << >>, memory |-> << >>]

\* memory[a]: the cell, or for an address past the end of the block whatever
\* byte of the heap lies there
MemRead(a) == IF a \in DOMAIN memory THEN {memory[a]} ELSE Values

\* memory[a] = v: the cell takes the value; past the end of the block the
\* byte written is one of the heap's, no cell of memory
MemWrite(a, v) ==
  IF a \in DOMAIN memory THEN [memory EXCEPT ![a] = v] ELSE memory

\* the address is outside the block malloc returned for memory
OutOfBounds(a) == a < 0 \/ a >= memory_size

\* some core's instruction of this cycle writes address a
WrittenNow(a) == \E j \in Cores : inst[j].type = 1 /\ inst[j].address = a

\* ------------------------------------------------------------------ Init
\* The blocks malloc returns are fresh pages of the heap, zero bytes: every
\* line is {address 0, value 0, state Invalid (= 0)}, every memory cell is 0.
HeapLine == [address |-> 0, value |-> 0, state |-> Invalid]
HeapValue == 0

InitHeap ==
  /\ c = [k \in Cores |-> [h \in Slots |-> HeapLine]]
  /\ memory = [a \in Addresses |-> HeapValue]

InitThreads ==
  /\ pc = [k \in Cores |-> "L134"]
  /\ inst = [k \in Cores |-> NoInst]
  /\ idx = [k \in Cores |-> 0]
  /\ found = [k \in Cores |-> FALSE]
  /\ mem_access = None
  /\ cache_access = None
  /\ print_lock = None
  /\ test = None
  /\ cycle = [k \in Cores |-> 0]
  /\ obs = [k \in Cores |-> NoObs]
  /\ freed = 0
  /\ overrun = FALSE

InitHistory ==
  /\ lastw = [a \in Addresses |-> NoWrite]
  /\ wb = [k \in Cores |-> NoLine]
  /\ evicted = [a \in Addresses |-> None]
  /\ expect = [k \in Cores |-> None]
  /\ start = NoStart
  /\ before = NoStart

Init ==
  /\ InitHeap /\ InitThreads /\ InitHistory
  /\ debug = FALSE
  /\ isa = decoded
  /\ limit = MaxCycles

\* --------------------------------------------------------------- helpers
SetField(k, h, f, v) == [c EXCEPT ![k][h][f] = v]

\* the next i of "for (i = 0; i < num_threads; i++)" at or after i that is
\* not skipped by "if (i == core) continue"
NextI(k, i) ==
  IF \E j \in Cores : j >= i /\ j # k
    THEN CHOOSE j \in Cores :
           j >= i /\ j # k /\ \A m \in Cores : (m >= i /\ m # k) => j <= m
    ELSE NumCores

\* where the thread goes after the eviction block (line 165)
AfterEvict(k) == IF inst[k].type = 1 THEN "L166" ELSE "L190"

\* the labels at which a thread uses the array c
ExecLabels ==
  { "L143", "L158", "L161", "L163", "L166", "L167", "L168", "L171", "L179",
    "L181", "L190", "L194", "L197", "L198", "L201", "L202", "L203", "L209",
    "L212", "L213", "L218", "L243" }

BarrierLabels == {"L135", "L250", "L253"}

\* ---------------------------------------------------------- clock / loop
\* line 134: fgets returns the next line of the stream ...
FetchInst(k) ==
  /\ pc[k] = "L134"
  /\ cycle[k] < limit
  /\ \E i \in isa :
       /\ inst' = [inst EXCEPT ![k] = i]
       /\ lastw' = IF i.type = 1
                     THEN [lastw EXCEPT ![i.address] = NoWrite] ELSE lastw
       /\ evicted' = IF i.type = 1
                       THEN [evicted EXCEPT ![i.address] = None] ELSE evicted
  /\ cycle' = [cycle EXCEPT ![k] = @ + 1]
  /\ pc' = [pc EXCEPT ![k] = "L135"]
  /\ UNCHANGED << c, memory, idx, found, mem_access, cache_access, print_lock,
                  test, debug, obs, freed, isa, wb, expect, start, overrun,
                  before, limit >>

\* ... or NULL at the end of the stream: the thread leaves the loop
FetchEOF(k) ==
  /\ pc[k] = "L134"
  /\ pc' = [pc EXCEPT ![k] = "L252"]
  /\ UNCHANGED << c, memory, inst, idx, found, mem_access, cache_access,
                  print_lock, test, debug, cycle, obs, freed, isa, lastw, wb,
                  evicted, expect, start, overrun, before, limit >>

\* line 252: every thread frees c, then waits at the barrier that ends the
\* parallel region
FreeCache(k) ==
  /\ pc[k] = "L252"
  /\ freed' = freed + 1
  /\ pc' = [pc EXCEPT ![k] = "L253"]
  /\ UNCHANGED << c, memory, inst, idx, found, mem_access, cache_access,
                  print_lock, test, debug, cycle, obs, isa, lastw, wb,
                  evicted, expect, start, overrun, before, limit >>

\* The barriers: the implicit one of "omp single" (L135), "omp barrier"
\* (L250) and the one ending the parallel region (L253).
AfterBarrier(l) ==
  IF l = "L135" THEN "L143" ELSE IF l = "L250" THEN "L134" ELSE "Done"

\* what a local of the loop body holds after the barrier at label l
EndIteration(l, v, none) == IF l = "L250" THEN none ELSE v

\* the threads that wait at a barrier go on
Release ==
  /\ pc' = [k \in Cores |-> AfterBarrier(pc[k])]
  /\ inst' = [k \in Cores |-> EndIteration(pc[k], inst[k], NoInst)]
  /\ start' = IF \E k \in Cores : pc[k] = "L135"
                THEN [c |-> c, memory |-> memory] ELSE NoStart

\* (a barrier that lets every thread that arrives go on at once)
BarrierOpenEarly ==
  /\ \E k \in Cores :
       /\ pc[k] \in BarrierLabels
       /\ pc' = [pc EXCEPT ![k] = AfterBarrier(pc[k])]
       /\ inst' = [inst EXCEPT ![k] = EndIteration(pc[k], inst[k], NoInst)]
  /\ start' = start
  /\ UNCHANGED << c, memory, idx, found, mem_access, cache_access, print_lock,
                  test, debug, cycle, obs, freed, isa, lastw, wb, evicted,
                  expect, overrun, before, limit >>

\* A barrier opens when every thread of the team waits at it.
BarrierOpen ==
  /\ \E l \in BarrierLabels : \A k \in Cores : pc[k] = l
  /\ Release  \* sets pc', inst' and start'
  /\ UNCHANGED << c, memory, idx, found, mem_access, cache_access, print_lock,
                  test, debug, cycle, obs, freed, isa, lastw, wb, evicted,
                  expect, overrun, before, limit >>

\* Streams of unequal length make the threads wait at different barriers, which
\* OpenMP leaves undefined: a runtime that counts the arrivals at the team's
\* one barrier opens it, another never does.
BarrierMismatch ==
  /\ \A k \in Cores : pc[k] \in BarrierLabels
  /\ \E j, k \in Cores : pc[j] # pc[k]
  /\ Release  \* sets pc', inst' and start'
  /\ UNCHANGED << c, memory, idx, found, mem_access, cache_access, print_lock,
                  test, debug, cycle, obs, freed, isa, lastw, wb, evicted,
                  expect, overrun, before, limit >>

\* Undefined behaviour of free(c): a second free of the same block, or a use
\* of c by a thread after another freed it, may go unnoticed or end the
\* process.
UndefinedFree ==
  freed >= 2 \/ (freed >= 1 /\ \E k \in Cores : pc[k] \in ExecLabels)

\* So may an access past the end of the block of memory.
Abort ==
  /\ (UndefinedFree \/ overrun)
  /\ \E k \in Cores : pc[k] # "Aborted"
  /\ pc' = [k \in Cores |-> "Aborted"]
  /\ UNCHANGED << c, memory, inst, idx, found, mem_access, cache_access,
                  print_lock, test, debug, cycle, obs, freed, isa, lastw, wb,
                  evicted, expect, start, overrun, before, limit >>

\* ------------------------------------------------- one instruction, by line
\* lines 139-153: (DEBUG: enter critical(test));  decode, hash, and the test
\* "the address differs and the line is Modified or Shared"
Decode(k) ==
  /\ pc[k] = "L143"
  /\ IF debug THEN test = None /\ test' = k ELSE test' = test
  /\ pc' = [pc EXCEPT ![k] =
       IF Line(k).address # inst[k].address
          /\ (Line(k).state = Modified \/ Line(k).state = Shared)
         THEN "L158" ELSE AfterEvict(k)]
  /\ expect' = [expect EXCEPT ![k] =
       IF inst[k].type = 0 /\ inst[k].address \in DOMAIN evicted
         THEN evicted[inst[k].address] ELSE None]
  /\ before' = IF debug THEN [c |-> c, memory |-> memory] ELSE before
  /\ UNCHANGED << c, memory, inst, idx, found, mem_access, cache_access,
                  print_lock, debug, cycle, obs, freed, isa, lastw, wb,
                  evicted, start, overrun, limit >>

\* (an eviction that skips the write-back)
FlushSkipped(k) ==
  /\ pc[k] = "L158"
  /\ mem_access = None
  /\ mem_access' = k
  /\ memory' = memory
  /\ pc' = [pc EXCEPT ![k] = "L161"]
  /\ wb' = wb
  /\ UNCHANGED << c, inst, idx, found, cache_access, print_lock, test, debug,
                  cycle, obs, freed, isa, lastw, evicted, expect, start,
                  overrun, before, limit >>

\* (an eviction that does not wait for critical(mem_access))
FlushUnlocked(k) ==
  /\ pc[k] = "L158"
  /\ mem_access' = k
  /\ memory' = [memory EXCEPT ![Line(k).address] = Line(k).value]
  /\ pc' = [pc EXCEPT ![k] = "L161"]
  /\ wb' = wb
  /\ UNCHANGED << c, inst, idx, found, cache_access, print_lock, test, debug,
                  cycle, obs, freed, isa, lastw, evicted, expect, start,
                  overrun, before, limit >>

\* lines 158-160: enter critical(mem_access); flush the line to memory
Flush(k) ==
  /\ pc[k] = "L158"
  /\ mem_access = None
  /\ mem_access' = k
  /\ memory' = MemWrite(Line(k).address, Line(k).value)
  /\ overrun' = (overrun \/ OutOfBounds(Line(k).address))
  /\ pc' = [pc EXCEPT ![k] = "L161"]
  /\ wb' = [wb EXCEPT ![k] =
       IF Line(k).state = Modified /\ ~WrittenNow(Line(k).address)
         THEN [address |-> Line(k).address, value |-> Line(k).value]
         ELSE NoLine]
  /\ UNCHANGED << c, inst, idx, found, cache_access, print_lock, test, debug,
                  cycle, obs, freed, isa, lastw, evicted, expect, start,
                  before, limit >>

\* (a refill that does not leave critical(mem_access))
RefillInside(k) ==
  /\ pc[k] = "L161"
  /\ \E v \in MemRead(inst[k].address) : c' = SetField(k, Slot(k), "value", v)
  /\ overrun' = (overrun \/ OutOfBounds(inst[k].address))
  /\ mem_access' = mem_access
  /\ pc' = [pc EXCEPT ![k] = "L163"]
  /\ UNCHANGED << memory, inst, idx, found, cache_access, print_lock, test,
                  debug, cycle, obs, freed, isa, lastw, wb, evicted, expect,
                  start, before, limit >>

\* lines 161-162: refill the value from memory; leave critical(mem_access)
Refill(k) ==
  /\ pc[k] = "L161"
  /\ \E v \in MemRead(inst[k].address) : c' = SetField(k, Slot(k), "value", v)
  /\ overrun' = (overrun \/ OutOfBounds(inst[k].address))
  /\ mem_access' = None
  /\ pc' = [pc EXCEPT ![k] = "L163"]
  /\ UNCHANGED << memory, inst, idx, found, cache_access, print_lock, test,
                  debug, cycle, obs, freed, isa, lastw, wb, evicted, expect,
                  start, before, limit >>

\* line 163: the line takes the new address (its state is left as it is)
Retag(k) ==
  /\ pc[k] = "L163"
  /\ c' = SetField(k, Slot(k), "address", inst[k].address)
  /\ pc' = [pc EXCEPT ![k] = AfterEvict(k)]
  /\ evicted' = IF wb[k] # NoLine
                  THEN [evicted EXCEPT ![wb[k].address] = wb[k].value]
                  ELSE evicted
  /\ wb' = [wb EXCEPT ![k] = NoLine]
  /\ UNCHANGED << memory, inst, idx, found, mem_access, cache_access,
                  print_lock, test, debug, cycle, obs, freed, isa, lastw,
                  expect, start, overrun, before, limit >>

\* lines 166-168: the write, field by field, outside any critical section
WriteAddress(k) ==
  /\ pc[k] = "L166"
  /\ c' = SetField(k, Slot(k), "address", inst[k].address)
  /\ pc' = [pc EXCEPT ![k] = "L167"]
  /\ UNCHANGED << memory, inst, idx, found, mem_access, cache_access,
                  print_lock, test, debug, cycle, obs, freed, isa, lastw, wb,
                  evicted, expect, start, overrun, before, limit >>

WriteValue(k) ==
  /\ pc[k] = "L167"
  /\ c' = SetField(k, Slot(k), "value", inst[k].value)
  /\ pc' = [pc EXCEPT ![k] = "L168"]
  /\ UNCHANGED << memory, inst, idx, found, mem_access, cache_access,
                  print_lock, test, debug, cycle, obs, freed, isa, lastw, wb,
                  evicted, expect, start, overrun, before, limit >>

WriteState(k) ==
  /\ pc[k] = "L168"
  /\ c' = SetField(k, Slot(k), "state", Modified)
  /\ pc' = [pc EXCEPT ![k] = "L171"]
  /\ UNCHANGED << memory, inst, idx, found, mem_access, cache_access,
                  print_lock, test, debug, cycle, obs, freed, isa, lastw, wb,
                  evicted, expect, start, overrun, before, limit >>

\* lines 171-176: "if (state != Exclusive)": enter critical(cache_access) and
\* start the loop
InvalidateEnter(k) ==
  /\ pc[k] = "L171"
  /\ IF Line(k).state # Exclusive
       THEN /\ cache_access = None
            /\ cache_access' = k
            /\ idx' = [idx EXCEPT ![k] = NextI(k, 0)]
            /\ pc' = [pc EXCEPT ![k] = "L179"]
       ELSE /\ pc' = [pc EXCEPT ![k] = "L218"]
            /\ UNCHANGED << cache_access, idx >>
  /\ UNCHANGED << c, memory, inst, found, mem_access, print_lock, test, debug,
                  cycle, obs, freed, isa, lastw, wb, evicted, expect, start,
                  overrun, before, limit >>

\* the loop goes on with the next i, or ends and leaves critical(cache_access)
LoopOn(k, body, after) ==
  LET n == NextI(k, idx[k] + 1) IN
    /\ idx' = [idx EXCEPT ![k] = n]
    /\ IF n < NumCores
         THEN pc' = [pc EXCEPT ![k] = body] /\ cache_access' = cache_access
         ELSE pc' = [pc EXCEPT ![k] = after] /\ cache_access' = None

\* line 179: does core i hold the address?
InvalidateTest(k) ==
  /\ pc[k] = "L179"
  /\ IF c[idx[k]][Slot(k)].address = inst[k].address
       THEN /\ pc' = [pc EXCEPT ![k] = "L181"]
            /\ UNCHANGED << idx, cache_access >>
       ELSE LoopOn(k, "L179", "L218")
  /\ UNCHANGED << c, memory, inst, found, mem_access, print_lock, test, debug,
                  cycle, obs, freed, isa, lastw, wb, evicted, expect, start,
                  overrun, before, limit >>

\* (a write that leaves the line of core i as it is)
InvalidateNothing(k) ==
  /\ pc[k] = "L181"
  /\ c' = c
  /\ LoopOn(k, "L179", "L218")  \* sets idx', pc' and cache_access'
  /\ UNCHANGED << memory, inst, found, mem_access, print_lock, test, debug,
                  cycle, obs, freed, isa, lastw, wb, evicted, expect, start,
                  overrun, before, limit >>

\* line 181: invalidate the line of core i
InvalidateLine(k) ==
  /\ pc[k] = "L181"
  /\ c' = SetField(idx[k], Slot(k), "state", Invalid)
  /\ LoopOn(k, "L179", "L218")  \* sets idx', pc' and cache_access'
  /\ UNCHANGED << memory, inst, found, mem_access, print_lock, test, debug,
                  cycle, obs, freed, isa, lastw, wb, evicted, expect, start,
                  overrun, before, limit >>

\* lines 190-193: read hit, or read miss
ReadTest(k) ==
  /\ pc[k] = "L190"
  /\ pc' = [pc EXCEPT ![k] =
       IF Line(k).address # inst[k].address \/ Line(k).state = Invalid
         THEN "L194" ELSE "L218"]
  /\ UNCHANGED << c, memory, inst, idx, found, mem_access, cache_access,
                  print_lock, test, debug, cycle, obs, freed, isa, lastw, wb,
                  evicted, expect, start, overrun, before, limit >>

\* lines 193-196: found = false; enter critical(cache_access), start the loop
SnoopEnter(k) ==
  /\ pc[k] = "L194"
  /\ cache_access = None
  /\ cache_access' = k
  /\ found' = [found EXCEPT ![k] = FALSE]
  /\ idx' = [idx EXCEPT ![k] = NextI(k, 0)]
  /\ pc' = [pc EXCEPT ![k] = "L197"]
  /\ UNCHANGED << c, memory, inst, mem_access, print_lock, test, debug, cycle,
                  obs, freed, isa, lastw, wb, evicted, expect, start, overrun,
                  before, limit >>

\* where a read miss goes after the loop (line 207)
AfterSnoop(f) == IF f THEN "L218" ELSE "L209"

\* line 197: "c[i][hash].address != inst.address" ...
SnoopAddress(k) ==
  /\ pc[k] = "L197"
  /\ IF c[idx[k]][Slot(k)].address # inst[k].address
       THEN LoopOn(k, "L197", AfterSnoop(found[k]))
       ELSE /\ pc' = [pc EXCEPT ![k] = "L198"]
            /\ UNCHANGED << idx, cache_access >>
  /\ UNCHANGED << c, memory, inst, found, mem_access, print_lock, test, debug,
                  cycle, obs, freed, isa, lastw, wb, evicted, expect, start,
                  overrun, before, limit >>

\* ... line 198: "|| c[i][hash].state == Invalid"
SnoopState(k) ==
  /\ pc[k] = "L198"
  /\ IF c[idx[k]][Slot(k)].state = Invalid
       THEN LoopOn(k, "L197", AfterSnoop(found[k]))
       ELSE /\ pc' = [pc EXCEPT ![k] = "L201"]
            /\ UNCHANGED << idx, cache_access >>
  /\ UNCHANGED << c, memory, inst, found, mem_access, print_lock, test, debug,
                  cycle, obs, freed, isa, lastw, wb, evicted, expect, start,
                  overrun, before, limit >>

\* line 201: the line of core i is copied whole
SnoopCopy(k) ==
  /\ pc[k] = "L201"
  /\ c' = [c EXCEPT ![k][Slot(k)] = c[idx[k]][Slot(k)]]
  /\ pc' = [pc EXCEPT ![k] = "L202"]
  /\ UNCHANGED << memory, inst, idx, found, mem_access, cache_access,
                  print_lock, test, debug, cycle, obs, freed, isa, lastw, wb,
                  evicted, expect, start, overrun, before, limit >>

\* line 202: the line of core i becomes Shared
SnoopShareRemote(k) ==
  /\ pc[k] = "L202"
  /\ c' = SetField(idx[k], Slot(k), "state", Shared)
  /\ pc' = [pc EXCEPT ![k] = "L203"]
  /\ UNCHANGED << memory, inst, idx, found, mem_access, cache_access,
                  print_lock, test, debug, cycle, obs, freed, isa, lastw, wb,
                  evicted, expect, start, overrun, before, limit >>

\* lines 203-204: the own line becomes Shared; found = true; the loop goes on
SnoopShareLocal(k) ==
  /\ pc[k] = "L203"
  /\ c' = SetField(k, Slot(k), "state", Shared)
  /\ found' = [found EXCEPT ![k] = TRUE]
  /\ LoopOn(k, "L197", AfterSnoop(TRUE))  \* sets idx', pc' and cache_access'
  /\ UNCHANGED << memory, inst, mem_access, print_lock, test, debug, cycle,
                  obs, freed, isa, lastw, wb, evicted, expect, start, overrun,
                  before, limit >>

\* lines 209-211: enter critical(mem_access); fetch the value from memory
FetchValue(k) ==
  /\ pc[k] = "L209"
  /\ mem_access = None
  /\ mem_access' = k
  /\ \E v \in MemRead(inst[k].address) : c' = SetField(k, Slot(k), "value", v)
  /\ overrun' = (overrun \/ OutOfBounds(inst[k].address))
  /\ pc' = [pc EXCEPT ![k] = "L212"]
  /\ UNCHANGED << memory, inst, idx, found, cache_access, print_lock, test,
                  debug, cycle, obs, freed, isa, lastw, wb, evicted, expect,
                  start, before, limit >>

\* line 212
FetchState(k) ==
  /\ pc[k] = "L212"
  /\ c' = SetField(k, Slot(k), "state", Exclusive)
  /\ pc' = [pc EXCEPT ![k] = "L213"]
  /\ UNCHANGED << memory, inst, idx, found, mem_access, cache_access,
                  print_lock, test, debug, cycle, obs, freed, isa, lastw, wb,
                  evicted, expect, start, overrun, before, limit >>

\* lines 213-214: the address; leave critical(mem_access)
FetchAddress(k) ==
  /\ pc[k] = "L213"
  /\ c' = SetField(k, Slot(k), "address", inst[k].address)
  /\ mem_access' = None
  /\ pc' = [pc EXCEPT ![k] = "L218"]
  /\ UNCHANGED << memory, inst, idx, found, cache_access, print_lock, test,
                  debug, cycle, obs, freed, isa, lastw, wb, evicted, expect,
                  start, overrun, before, limit >>

\* lines 218-230: enter critical(print); print the line's address and value
Report(k) ==
  /\ pc[k] = "L218"
  /\ print_lock = None
  /\ print_lock' = k
  /\ obs' = [obs EXCEPT ![k] =
       [type |-> inst[k].type, address |-> Line(k).address,
        value |-> Line(k).value]]
  /\ idx' = [idx EXCEPT ![k] = 0]
  /\ found' = [found EXCEPT ![k] = FALSE]
  /\ pc' = [pc EXCEPT ![k] = "L243"]
  /\ UNCHANGED << c, memory, inst, mem_access, cache_access, test, debug,
                  cycle, freed, isa, lastw, wb, evicted, expect, start,
                  overrun, before, limit >>

\* lines 243-250: leave critical(print) (DEBUG: and critical(test)); arrive at
\* the barrier
ReportEnd(k) ==
  /\ pc[k] = "L243"
  /\ print_lock' = None
  /\ test' = IF debug THEN None ELSE test
  /\ obs' = [obs EXCEPT ![k] = NoObs]
  /\ expect' = [expect EXCEPT ![k] = None]
  /\ before' = NoStart
  /\ lastw' =
       IF inst[k].type = 1
          /\ \A j \in Cores \ {k} :
               ~(inst[j].type = 1 /\ inst[j].address = inst[k].address)
         THEN [lastw EXCEPT ![inst[k].address] =
                 [core |-> k, value |-> inst[k].value, cycle |-> cycle[k]]]
         ELSE lastw
  /\ pc' = [pc EXCEPT ![k] = "L250"]
  /\ UNCHANGED << c, memory, inst, idx, found, mem_access, cache_access,
                  debug, cycle, freed, isa, wb, evicted, start, overrun, limit >>

Execute(k) ==
  \/ Decode(k) \/ Flush(k) \/ Refill(k) \/ Retag(k)
  \/ WriteAddress(k) \/ WriteValue(k) \/ WriteState(k)
  \/ InvalidateEnter(k) \/ InvalidateTest(k) \/ InvalidateLine(k)
  \/ ReadTest(k) \/ SnoopEnter(k) \/ SnoopAddress(k) \/ SnoopState(k)
  \/ SnoopCopy(k) \/ SnoopShareRemote(k) \/ SnoopShareLocal(k)
  \/ FetchValue(k) \/ FetchState(k) \/ FetchAddress(k)
  \/ Report(k) \/ ReportEnd(k)

Next ==
  \/ \E k \in Cores : FetchInst(k) \/ FetchEOF(k) \/ FreeCache(k) \/ Execute(k)
  \/ BarrierOpen
  \/ BarrierMismatch
  \/ Abort

Spec == Init /\ [][Next]_vars

\* The DEBUG build: every instruction runs inside critical(test), one core at
\* a time.
InitDebug ==
  /\ InitHeap /\ InitThreads /\ InitHistory
  /\ debug = TRUE
  /\ isa = decoded
  /\ limit = MaxCycles

SpecDebug == InitDebug /\ [][Next]_vars

\* The streams are made of the instructions of SlotInsts only.
InitSlot ==
  /\ InitHeap /\ InitThreads /\ InitHistory
  /\ debug = FALSE
  /\ isa = SlotInsts
  /\ limit = MaxCycles

SpecSlot == InitSlot /\ [][Next]_vars

\* The same with a scheduler that lets some thread that can take a step take
\* one: a thread of the team that is not blocked at a critical section or at a
\* barrier runs.
SpecSlotLive == InitSlot /\ [][Next]_vars /\ WF_vars(Next)

\* The DEBUG build on streams of the instructions of SlotInsts.
InitSlotDebug ==
  /\ InitHeap /\ InitThreads /\ InitHistory
  /\ debug = TRUE
  /\ isa = SlotInsts
  /\ limit = MaxCycles

SpecSlotDebug == InitSlotDebug /\ [][Next]_vars

\* The DEBUG build on streams of the instructions of SlotInsts, one
\* instruction longer.
InitLong ==
  /\ InitHeap /\ InitThreads /\ InitHistory
  /\ debug = TRUE
  /\ isa = SlotInsts
  /\ limit = MaxCycles + 1

SpecLong == InitLong /\ [][Next]_vars

\* The streams are made of the instructions of RangeInsts only: some of them
\* address a byte past the end of memory.
InitRange ==
  /\ InitHeap /\ InitThreads /\ InitHistory
  /\ debug = FALSE
  /\ isa = RangeInsts
  /\ limit = MaxCycles

SpecRange == InitRange /\ [][Next]_vars

\* ------------------------------------------- an instruction as one function
\* The loop of lines 196-205 from core i on: every core that holds address a
\* in a state other than Invalid is copied and both lines become Shared.
RECURSIVE Snoop(_, _, _, _, _)
Snoop(cs, k, a, i, f) ==
  IF i >= NumCores
    THEN [c |-> cs, found |-> f]
    ELSE IF i = k \/ cs[i][hash(a)].address # a \/ cs[i][hash(a)].state = Invalid
      THEN Snoop(cs, k, a, i + 1, f)
      ELSE Snoop([cs EXCEPT ![k][hash(a)] = [cs[i][hash(a)] EXCEPT !.state = Shared],
                            ![i][hash(a)].state = Shared],
                 k, a, i + 1, TRUE)

\* Lines 143-217 executed by core k with no step of another core in between,
\* on the caches and the memory of st.
ExecInst(st, k, i) ==
  LET h == hash(i.address)
      old == st.c[k][h]
      evict == old.address # i.address
                 /\ (old.state = Modified \/ old.state = Shared)
      m1 == IF evict THEN [st.memory EXCEPT ![old.address] = old.value]
                     ELSE st.memory
      c1 == IF evict
              THEN [st.c EXCEPT ![k][h] =
                      [address |-> i.address, value |-> m1[i.address],
                       state |-> old.state]]
              ELSE st.c
      written ==
        [j \in Cores |-> [s \in Slots |->
          IF s # h THEN c1[j][s]
          ELSE IF j = k
            THEN [address |-> i.address, value |-> i.value, state |-> Modified]
          ELSE IF c1[j][h].address = i.address
            THEN [c1[j][h] EXCEPT !.state = Invalid]
          ELSE c1[j][h]]]
      sn == Snoop(c1, k, i.address, 0, FALSE)
      read ==
        IF c1[k][h].address # i.address \/ c1[k][h].state = Invalid
          THEN IF sn.found
                 THEN sn.c
                 ELSE [sn.c EXCEPT ![k][h] =
                         [address |-> i.address, value |-> m1[i.address],
                          state |-> Exclusive]]
          ELSE c1
  IN [c |-> IF i.type = 1 THEN written ELSE read, memory |-> m1]

\* the states the instructions of the cores of E, one core at a time in any
\* order, lead to from st
RECURSIVE SerialRuns(_, _)
SerialRuns(st, E) ==
  IF E = {}
    THEN {st}
    ELSE UNION { SerialRuns(ExecInst(st, k, inst[k]), E \ {k}) : k \in E }

\* ------------------------------------------------------------ properties
\* core k holds address a in state s
Holds(k, a, s) == c[k][hash(a)].address = a /\ c[k][hash(a)].state = s

\* core k holds a valid copy of address a
Valid(k, a) == c[k][hash(a)].address = a /\ c[k][hash(a)].state # Invalid

\* no core is inside an instruction, and no thread has left its loop
Quiescent ==
  /\ freed = 0
  /\ \A k \in Cores : pc[k] \in {"L134", "L135", "L250"}

\* every core has executed its instruction of this cycle
CycleDone == freed = 0 /\ \A k \in Cores : pc[k] = "L250"

\* C1: between two instructions, at most one core holds a given address in
\* state Modified.
C1_SingleModified ==
  Quiescent =>
    \A a \in Addresses : \A j, k \in Cores :
      (Holds(j, a, Modified) /\ Holds(k, a, Modified)) => j = k

\* C2: between two instructions, if a core holds address A Modified, no other
\* core holds A Shared or Exclusive.
C2_ModifiedExcludesOthers ==
  Quiescent =>
    \A a \in Addresses : \A j, k \in Cores :
      (j # k /\ Holds(j, a, Modified)) =>
        (~Holds(k, a, Shared) /\ ~Holds(k, a, Exclusive))

\* C3: between two instructions, two cores that both hold a valid copy of an
\* address hold the same value for it.
C3_CopiesAgree ==
  Quiescent =>
    \A a \in Addresses : \A j, k \in Cores :
      (Valid(j, a) /\ Valid(k, a)) =>
        c[j][hash(a)].value = c[k][hash(a)].value

\* core y is about to end a read of address a that began in a later cycle than
\* the write of value v to a by another core x, and no core fetched a write
\* to a in the cycle of that write or since
ReadsAfterWrite(y, x, a, v) ==
  /\ pc[y] = "L243"
  /\ inst[y] = RD(a)
  /\ x # y
  /\ lastw[a].core = x
  /\ lastw[a].value = v
  /\ lastw[a].cycle < cycle[y]
  /\ freed = 0

\* core x is not inside an instruction on the slot of address a
Idle(x, a) ==
  pc[x] \in {"L250"} /\ (inst[x].type = None \/ hash(inst[x].address) # hash(a))

\* C4: core X writes V to A and core Y reads A in a later cycle, with no other
\* write to A in between: Y observes V, and afterwards X's line for A is
\* Invalid or both lines are Shared.
C4_CrossCoreVisibility ==
  \A x, y \in Cores : \A a \in Addresses : \A v \in Values :
    ReadsAfterWrite(y, x, a, v) =>
      /\ obs[y].value = v
      /\ obs[y].address = a
      /\ Idle(x, a) =>
           \/ ~Valid(x, a)
           \/ Holds(x, a, Shared) /\ Holds(y, a, Shared)

\* C5: both cores write address 0 in the first cycle, with different values:
\* when the cycle is done, one core's line for address 0 is Modified with that
\* core's value and the other core's line for address 0 is Invalid.
BothWriteZero ==
  /\ CycleDone
  /\ \A k \in Cores : cycle[k] = 1 /\ inst[k].type = 1 /\ inst[k].address = 0
  /\ \A j, k \in Cores : j # k => inst[j].value # inst[k].value

C5_OneWriterWins ==
  BothWriteZero =>
    \E k \in Cores :
      /\ c[k][0] = [address |-> 0, value |-> inst[k].value, state |-> Modified]
      /\ \A j \in Cores \ {k} : c[j][0].address = 0 /\ c[j][0].state = Invalid

\* C6: when every core has executed its instruction of the cycle, the caches
\* and the memory are those that the same instructions lead to when they are
\* executed one core at a time, in some order.
C6_CycleSerializable ==
  (CycleDone /\ start # NoStart) =>
    [c |-> c, memory |-> memory] \in SerialRuns(start, Cores)

\* the labels inside critical(mem_access)
MemSection == {"L161", "L212", "L213"}

\* C7: a core that evicts has written the line's value to memory at the line's
\* old address before the line's value is replaced, and from the write-back to
\* the refill it holds critical(mem_access) with no other core inside.
C7_FlushBeforeRefill ==
  \A k \in Cores :
    pc[k] = "L161" =>
      /\ mem_access = k
      /\ Line(k).address # inst[k].address
      /\ memory[Line(k).address] = Line(k).value
      /\ \A j \in Cores \ {k} : pc[j] \notin MemSection

\* a core has flushed a Modified line whose value memory did not hold, while
\* the other core waits for critical(mem_access)
C7_Witness ==
  \E k \in Cores :
    /\ pc[k] = "L161"
    /\ Line(k).state = Modified
    /\ Line(k).value # HeapValue
    /\ \E j \in Cores \ {k} : pc[j] \in {"L158", "L209"}

\* C8: after a core has evicted a Modified line (A, V), a read of A that
\* begins later observes V, provided no core writes A in between.
C8_ReadAfterEviction ==
  \A k \in Cores :
    ( /\ pc[k] = "L243"
      /\ inst[k].type = 0
      /\ expect[k] # None
      /\ evicted[inst[k].address] = expect[k]
      /\ freed = 0 )
    => obs[k].value = expect[k]

\* C9: a core writes V to A and its next instruction reads A, and no other core
\* fetched a write to A in these two cycles: the read observes V.
C9_SameCoreRoundTrip ==
  \A k \in Cores : \A a \in Addresses : \A v \in Values :
    ( /\ pc[k] = "L243"
      /\ inst[k] = RD(a)
      /\ lastw[a] = [core |-> k, value |-> v, cycle |-> cycle[k] - 1]
      /\ freed = 0 )
    => obs[k].value = v

\* the instructions core k has completed
Completed(k) ==
  IF pc[k] \in ExecLabels \cup {"L135"} THEN cycle[k] - 1 ELSE cycle[k]

\* core k is still in its loop
Active(k) == pc[k] \in ExecLabels \cup {"L134", "L135", "L250"}

\* C10: no core executes its instruction K+1 before every core that is still
\* in its loop has completed its instruction K.
C10_Barrier ==
  \A x, y \in Cores :
    (pc[x] \in ExecLabels /\ Active(y)) => Completed(y) >= cycle[x] - 1

\* a core executes its second instruction while the other, still in its loop,
\* has completed its first and not yet its second
C10_Witness ==
  \E x, y \in Cores :
    /\ x # y
    /\ pc[x] \in ExecLabels /\ cycle[x] = 2
    /\ pc[y] \in ExecLabels /\ Completed(y) = 1


\* the run has ended: every thread has left the parallel region, or the
\* process was ended
RunEnded == \A k \in Cores : pc[k] \in {"Done", "Aborted"}

\* C11: every run ends, whatever the lengths of the streams: no core waits
\* forever at a barrier.
C11_Termination == <>RunEnded

\* the cores that are inside critical(mem_access)
InMemSection == { k \in Cores : pc[k] \in MemSection }

\* at most one core is inside critical(mem_access), and it is the holder
MemExclusive ==
  /\ Cardinality(InMemSection) <= 1
  /\ \A k \in InMemSection : mem_access = k

\* a step that changes a memory cell is taken by the core that enters
\* critical(mem_access) with it, and no other core is inside
MemWriteInside ==
  memory' # memory =>
    \E k \in Cores :
      /\ mem_access = None /\ mem_access' = k
      /\ InMemSection = {} /\ pc'[k] \in MemSection
      /\ \A j \in Cores \ {k} : pc'[j] = pc[j]

\* a step that copies a memory cell into a line (the line's value changes
\* while its core is at a statement that reads memory) is taken by the holder
\* of critical(mem_access)
MemReadInside ==
  \A k \in Cores :
    (pc[k] \in {"L161", "L209"} /\ pc'[k] \in {"L163", "L212"}) =>
      /\ (mem_access = k \/ (mem_access = None /\ mem_access' = k))
      /\ \A j \in Cores \ {k} : pc[j] \notin MemSection

\* C12: at most one core at a time reads or writes memory, and every read and
\* write of memory by an instruction is made inside critical(mem_access).
C12_MemoryExclusion ==
  /\ []MemExclusive
  /\ [][MemWriteInside /\ MemReadInside]_vars

\* a core fetches from memory inside critical(mem_access) while the other core
\* waits to enter it for an eviction
C12_Witness ==
  \E k \in Cores :
    /\ pc[k] = "L212"
    /\ mem_access = k
    /\ \E j \in Cores \ {k} : pc[j] = "L158"

\* core k takes a step of an instruction whose address is outside memory
StepOutOfBounds(k) ==
  /\ pc[k] \in ExecLabels
  /\ OutOfBounds(inst[k].address)
  /\ pc'[k] # pc[k]
  /\ pc'[k] # "Aborted"

\* C13: an instruction whose address is outside [0, memory_size) changes no
\* cache line and no memory cell, and accesses no byte past the end of memory.
C13_OutOfBounds ==
  [][\A k \in Cores :
       StepOutOfBounds(k) => (c' = c /\ memory' = memory /\ overrun' = overrun)
    ]_vars

\* core k, alone inside critical(test), is about to end instruction i, which
\* it began on the caches and the memory of before
Ends(k, i) == debug /\ pc[k] = "L243" /\ inst[k] = i /\ before # NoStart

\* the line of core k for address a in the caches cs
LineOf(cs, k, a) == cs[k][hash(a)]

\* the cores other than k that hold a valid copy of address a in the caches cs
Holders(cs, k, a) ==
  { j \in Cores \ {k} :
      LineOf(cs, j, a).address = a /\ LineOf(cs, j, a).state # Invalid }

\* the line of core k for address a held another address, or was Invalid
Missed(cs, k, a) ==
  LineOf(cs, k, a).address # a \/ LineOf(cs, k, a).state = Invalid

\* C14: after RD A by a core whose line held another address (in any state)
\* or was Invalid, the line holds A and is Shared with the value of another
\* core that held A, that core's line being Shared too, or, if no other core
\* held A, is Exclusive with the value of memory[A].
C14_ReadMiss ==
  \A k \in Cores : \A a \in Addresses :
    (Ends(k, RD(a)) /\ Missed(before.c, k, a)) =>
      IF Holders(before.c, k, a) # {}
        THEN /\ Line(k).address = a
             /\ Line(k).state = Shared
             /\ \E j \in Holders(before.c, k, a) :
                  /\ Line(k).value = LineOf(before.c, j, a).value
                  /\ LineOf(c, j, a).state = Shared
        ELSE Line(k) = [address |-> a, value |-> memory[a], state |-> Exclusive]

\* C15: after WR A V by a core that executes alone, its line for A is
\* {A, V, Modified}, the line of every other core that held A is Invalid, and
\* every other line of the other cores is as it was.
C15_WritePostcondition ==
  \A k \in Cores : \A a \in Addresses : \A v \in Values :
    Ends(k, WR(a, v)) =>
      /\ Line(k) = [address |-> a, value |-> v, state |-> Modified]
      /\ \A j \in Cores \ {k} : \A h \in Slots :
           IF h = hash(a) /\ before.c[j][h].address = a
             THEN c[j][h].state = Invalid
             ELSE c[j][h] = before.c[j][h]

\* a core ends a write of an address that another core held Modified, and
\* that its own line did not hold
C15_Witness ==
  \E k \in Cores : \E a \in Addresses : \E v \in Values :
    /\ Ends(k, WR(a, v))
    /\ LineOf(before.c, k, a).address # a
    /\ \E j \in Cores \ {k} : LineOf(before.c, j, a).state = Modified
                                /\ LineOf(before.c, j, a).address = a

\* C16: between two instructions, memory holds the value of every line that is
\* Shared or Exclusive.
C16_MemoryCurrent ==
  Quiescent =>
    \A k \in Cores : \A a \in Addresses :
      (Holds(k, a, Shared) \/ Holds(k, a, Exclusive)) =>
        memory[a] = LineOf(c, k, a).value

\* core k writes back the line its instruction replaces
WritesBack(k) ==
  /\ pc[k] = "L158" /\ pc'[k] = "L161"
  /\ Line(k).address # inst[k].address
  /\ memory' = [memory EXCEPT ![Line(k).address] = Line(k).value]

\* C17: a memory cell changes only by the write-back of a line that holds its
\* address and is Modified or Shared; no write, read hit or fetch changes
\* memory, and the replacement of a line that is Exclusive or Invalid writes
\* nothing.
C17_MemoryFrame ==
  [][memory' # memory =>
       \E k \in Cores :
         WritesBack(k) /\ Line(k).state \in {Modified, Shared}]_vars

\* C18: between two instructions of a run that executes them one at a time,
\* the value of the last write of an address is in memory or in a valid line
\* of some core for that address.
C18_NoLostWrite ==
  \A a \in Addresses :
    (debug /\ Quiescent /\ lastw[a] # NoWrite) =>
      \/ memory[a] = lastw[a].value
      \/ \E k \in Cores :
           Valid(k, a) /\ LineOf(c, k, a).value = lastw[a].value

\* core y copies the line of core x (line 201)
Copies(y, x) == pc[y] = "L201" /\ pc'[y] = "L202" /\ idx[y] = x

\* core x is between the refill of the line at slot h and the change of its
\* address: the value it wrote back, which memory holds, is the one the line
\* held for its address
Replacing(x, h) == pc[x] = "L163" /\ Slot(x) = h

\* C19: the value a read miss copies from the line of a core that is evicting
\* that line is the value the line held for the address, the one written back.
C19_SnoopConsistency ==
  [][\A y \in Cores : \A x \in Cores \ {y} :
       (Copies(y, x) /\ Replacing(x, Slot(y))) =>
         c[x][Slot(y)].value = memory[c[x][Slot(y)].address]
    ]_vars

\* the three critical sections of the release build, and the holder of each
Domains == {"mem_access", "cache_access", "print"}

Holder(d) ==
  IF d = "mem_access" THEN mem_access
  ELSE IF d = "cache_access" THEN cache_access
  ELSE print_lock

\* the critical sections core k is inside
Holding(k) == { d \in Domains : Holder(d) = k }

\* the critical sections core k is about to enter
Requests(k) ==
  IF pc[k] \in {"L158", "L209"} THEN {"mem_access"}
  ELSE IF pc[k] = "L194" \/ (pc[k] = "L171" /\ Line(k).state # Exclusive)
    THEN {"cache_access"}
  ELSE IF pc[k] = "L218" THEN {"print"}
  ELSE {}

\* core k waits for a critical section another core is inside
Waits(k, d) == d \in Requests(k) /\ Holder(d) \in Cores \ {k}

\* C20: a core that is about to enter a critical section is inside no other
\* one, no core is inside two, and whenever a core waits for a critical
\* section the core inside it can take a step.
C20_NoLockDeadlock ==
  \A k \in Cores :
    /\ Cardinality(Holding(k)) <= 1
    /\ Requests(k) # {} => Holding(k) = {}
    /\ \A d \in Domains : Waits(k, d) => ENABLED Execute(Holder(d))

\* a core waits for critical(cache_access) while the other core is inside it,
\* and that core is at the store that invalidates the waiting core's line
C20_Witness ==
  \E k \in Cores :
    /\ Waits(k, "cache_access")
    /\ pc[cache_access] = "L181"
    /\ idx[cache_access] = k
====
